---- MODULE Spec2Model ----
(***************************************************************************)
(* Model of the two patch scripts of claude-cowork-linux:                  *)
(*   patches/enable-cowork.py         find_balanced_function, patch_file   *)
(*   patches/inject-cowork-bridge.py  patch_mainview                       *)
(*                                                                         *)
(* A text buffer is a sequence of lexical tokens (TLA+ strings).  A token  *)
(* is a maximal piece of text that the scripts' regular expressions and    *)
(* literal searches never look inside: a keyword, an identifier (\w+), a   *)
(* brace, a UUID, or a fixed run of punctuation.  Substring search,        *)
(* str.replace and re.search/finditer are modelled on token sequences as   *)
(* Python computes them on characters (leftmost, non-overlapping).         *)
(* Python offsets are 0-based; positions in the model are 1-based.         *)
(***************************************************************************)
EXTENDS Integers, Sequences, FiniteSets, TLC

VARIABLES
    script,     \* which program runs: "enable", "inject" or "extract"
    file,       \* the text stored at filepath
    content,    \* the local variable `content`
    pc,         \* position of the running function
    patches,    \* patch_file: the local list `patches`
    k,          \* patch_file: index of the apply loop
    ctx,        \* patch_mainview: the locals uuid, ipc_var, obj_var, original
    out,        \* the lines printed by the current run
    ret,        \* the return value of the current run ("none" while running)
    wrote,      \* whether the current run opened filepath for writing
    run,        \* number of the current run
    hist,       \* one record per finished run
    input,      \* the text stored at filepath when the current run began
    start,      \* find_balanced_function: the argument `start`
    result      \* find_balanced_function: the returned value

vars == <<script, file, content, pc, patches, k, ctx, out, ret, wrote, run,
          hist, input, start, result>>

(***************************************************************************)
(* Bounds of the model.                                                    *)
(***************************************************************************)
MaxPieces == 3
MaxRuns == 3
MaxLen == 6

(***************************************************************************)
(* Generic text operations (Python str semantics on token sequences).      *)
(***************************************************************************)
RECURSIVE Concat(_)
Concat(ss) == IF ss = <<>> THEN <<>> ELSE Head(ss) \o Concat(Tail(ss))

\* sub == s[i : i+len(sub)]   (i is 1-based)
MatchAt(s, sub, i) ==
    /\ i >= 1
    /\ i + Len(sub) - 1 <= Len(s)
    /\ \A j \in 1..Len(sub) : s[i + j - 1] = sub[j]

\* Python `sub in s`
Contains(s, sub) == \E i \in 1..(Len(s) + 1) : MatchAt(s, sub, i)

\* Python s.find(sub), 1-based; 0 when absent
Find(s, sub) ==
    IF Contains(s, sub)
    THEN CHOOSE i \in 1..(Len(s) + 1) :
            /\ MatchAt(s, sub, i)
            /\ \A j \in 1..(i - 1) : ~MatchAt(s, sub, j)
    ELSE 0

\* Python s.count(sub): non-overlapping occurrences, left to right
RECURSIVE CountFrom(_, _, _)
CountFrom(s, sub, i) ==
    IF i > Len(s) THEN 0
    ELSE IF MatchAt(s, sub, i) THEN 1 + CountFrom(s, sub, i + Len(sub))
    ELSE CountFrom(s, sub, i + 1)

Count(s, sub) == CountFrom(s, sub, 1)

\* Python s.replace(old, new): every non-overlapping occurrence (old non-empty)
RECURSIVE ReplaceFrom(_, _, _, _)
ReplaceFrom(s, old, new, i) ==
    IF i > Len(s) THEN <<>>
    ELSE IF MatchAt(s, old, i) THEN new \o ReplaceFrom(s, old, new, i + Len(old))
    ELSE <<s[i]>> \o ReplaceFrom(s, old, new, i + 1)

ReplaceAll(s, old, new) == ReplaceFrom(s, old, new, 1)

\* a replace without the count argument: every occurrence
ReplaceFirstAsAll(s, old, new) == ReplaceFrom(s, old, new, 1)

\* Python s.replace(old, new, 1): the first occurrence only
ReplaceFirst(s, old, new) ==
    LET p == Find(s, old)
    IN  IF p = 0 THEN s
        ELSE SubSeq(s, 1, p - 1) \o new \o SubSeq(s, p + Len(old), Len(s))

(***************************************************************************)
(* enable-cowork.py: tokens.                                               *)
(***************************************************************************)
KwFunction == "function "                          \* function\s+
KwReturn == "return"
Parens == "()"
Open == "{"
Close == "}"
Gate == " process.platform!==\"darwin\"?"          \* \s+process\.platform!=="darwin"\?
Unsupported == "status:\"unsupported\""
Unavailable == "status:\"unavailable\""
Supported == "status:\"supported\""
Colon == ":"
TitleBar == "titleBarStyle:\"hidden\","
Filler == ";"

Names == {"f", "g"}

\* tokens matched by \w+
IsWord(t) == t \in Names \cup {KwReturn}

NoneValue == [found |-> FALSE, text |-> <<>>]
Fragment(t) == [found |-> TRUE, text |-> t]

(***************************************************************************)
(* find_balanced_function(content, start)                                  *)
(***************************************************************************)
RECURSIVE ScanBraces(_, _, _, _)
ScanBraces(c, s, i, depth) ==
    IF i > Len(c) THEN NoneValue
    ELSE IF c[i] = Open THEN ScanBraces(c, s, i + 1, depth + 1)
    ELSE IF c[i] = Close
         THEN IF depth - 1 = 0 THEN Fragment(SubSeq(c, s, i))
              ELSE ScanBraces(c, s, i + 1, depth - 1)
    ELSE ScanBraces(c, s, i + 1, depth)

\* a scan that stops at the first closing brace, whatever the depth
RECURSIVE ScanFirstClose(_, _, _)
ScanFirstClose(c, s, i) ==
    IF i > Len(c) THEN NoneValue
    ELSE IF c[i] = Close THEN Fragment(SubSeq(c, s, i))
    ELSE ScanFirstClose(c, s, i + 1)

find_balanced_first_close(c, s) == ScanFirstClose(c, s, s)

\* a scan that returns whatever is left when the input ends inside a block
RECURSIVE ScanTruncating(_, _, _, _)
ScanTruncating(c, s, i, depth) ==
    IF i > Len(c)
    THEN IF depth > 0 THEN Fragment(SubSeq(c, s, Len(c))) ELSE NoneValue
    ELSE IF c[i] = Open THEN ScanTruncating(c, s, i + 1, depth + 1)
    ELSE IF c[i] = Close
         THEN IF depth - 1 = 0 THEN Fragment(SubSeq(c, s, i))
              ELSE ScanTruncating(c, s, i + 1, depth - 1)
    ELSE ScanTruncating(c, s, i + 1, depth)

find_balanced_truncating(c, s) == ScanTruncating(c, s, s, 0)

find_balanced_function(c, s) == ScanBraces(c, s, s, 0)

(***************************************************************************)
(* patch_file: the anchor pattern and the list of patches.                 *)
(***************************************************************************)
AnchorLen == 8

\* pattern.match at position i
AnchorAt(c, i) ==
    /\ i >= 1
    /\ i + AnchorLen - 1 <= Len(c)
    /\ c[i] = KwFunction
    /\ IsWord(c[i + 1])
    /\ c[i + 2] = Parens
    /\ c[i + 3] = Open
    /\ c[i + 4] = KwReturn
    /\ c[i + 5] = Gate
    /\ c[i + 6] = Open
    /\ c[i + 7] \in {Unsupported, Unavailable}

\* pattern.finditer(content): the starts of the non-overlapping matches
RECURSIVE FindIter(_, _)
FindIter(c, i) ==
    IF i > Len(c) THEN <<>>
    ELSE IF AnchorAt(c, i) THEN <<i>> \o FindIter(c, i + AnchorLen)
    ELSE FindIter(c, i + 1)

\* f'function {func_name}(){{return{{status:"supported"}}}}'
Replacement(name) ==
    <<KwFunction, name, Parens, Open, KwReturn, Open, Supported, Close, Close>>

\* a loop that stops (break) at the first match whose block is not balanced
RECURSIVE CollectAborting(_, _)
CollectAborting(c, ms) ==
    IF ms = <<>> THEN <<>>
    ELSE LET m == Head(ms)
             func_body == find_balanced_function(c, m)
         IN  IF func_body.found
             THEN <<[old |-> func_body.text, new |-> Replacement(c[m + 1]),
                     name |-> c[m + 1]]>> \o CollectAborting(c, Tail(ms))
             ELSE <<>>

\* the loop of lines 38-44 over the matches ms
RECURSIVE Collect(_, _)
Collect(c, ms) ==
    IF ms = <<>> THEN <<>>
    ELSE LET m == Head(ms)
             func_name == c[m + 1]
             func_body == find_balanced_function(c, m)
         IN  IF func_body.found
             THEN <<[old |-> func_body.text, new |-> Replacement(func_name),
                     name |-> func_name]>> \o Collect(c, Tail(ms))
             ELSE Collect(c, Tail(ms))

Line(kind, name) == [kind |-> kind, name |-> name]

NoCtx == [uuid |-> "", ipc_var |-> "", obj_var |-> "", original |-> <<>>]

\* what a finished run leaves behind
Finished(r, o, w, f) ==
    [script |-> script, input |-> input, output |-> f, ret |-> r, out |-> o,
     wrote |-> w]

\* a failure path that writes the buffer back before returning False
FailWriting(message) ==
    /\ LET o == Append(out, Line(message, ""))
       IN  /\ out' = o
           /\ hist' = Append(hist, Finished("False", o, TRUE, content))
    /\ file' = content
    /\ wrote' = TRUE
    /\ ret' = "False"
    /\ pc' = "done"
    /\ UNCHANGED <<script, content, patches, k, ctx, run, input, start, result>>

\* an early `return False` after printing an ERROR line
Fail(message) ==
    /\ LET o == Append(out, Line(message, ""))
       IN  /\ out' = o
           /\ hist' = Append(hist, Finished("False", o, wrote, file))
    /\ ret' = "False"
    /\ pc' = "done"
    /\ UNCHANGED <<script, file, content, patches, k, ctx, wrote, run, input,
                   start, result>>

(***************************************************************************)
(* patch_file(filepath), one action per block of statements.               *)
(***************************************************************************)
\* lines 30-44: read the file, collect the patches
PfRead ==
    /\ script = "enable" /\ pc = "pf_read"
    /\ content' = file
    /\ patches' = Collect(file, FindIter(file, 1))
    /\ pc' = "pf_check"
    /\ UNCHANGED <<script, file, k, ctx, out, ret, wrote, run, hist, input,
                   start, result>>

\* lines 46-48: no patches, return False
PfNoPatches ==
    /\ script = "enable" /\ pc = "pf_check"
    /\ patches = <<>>
    /\ Fail("ERROR: No platform-gated functions found")

\* line 50: enter the apply loop
PfEnterLoop ==
    /\ script = "enable" /\ pc = "pf_check"
    /\ patches # <<>>
    /\ k' = 1
    /\ pc' = "pf_apply"
    /\ UNCHANGED <<script, file, content, patches, ctx, out, ret, wrote, run,
                   hist, input, start, result>>

\* lines 51-53: the replacement is already in the buffer
PfAlreadyPatched ==
    /\ script = "enable" /\ pc = "pf_apply"
    /\ k <= Len(patches)
    /\ Contains(content, patches[k].new)
    /\ out' = Append(out, Line("already patched", patches[k].name))
    /\ k' = k + 1
    /\ UNCHANGED <<script, file, content, pc, patches, ctx, ret, wrote, run,
                   hist, input, start, result>>

\* lines 54-55: content.replace(old, new), reported as patched
PfPatch ==
    /\ script = "enable" /\ pc = "pf_apply"
    /\ k <= Len(patches)
    /\ ~Contains(content, patches[k].new)
    /\ content' = ReplaceAll(content, patches[k].old, patches[k].new)
    /\ out' = Append(out, Line("patched", patches[k].name))
    /\ k' = k + 1
    /\ UNCHANGED <<script, file, pc, patches, ctx, ret, wrote, run, hist,
                   input, start, result>>

\* lines 61-64: strip titleBarStyle:"hidden",
PfStrip ==
    /\ script = "enable" /\ pc = "pf_apply"
    /\ k > Len(patches)
    /\ IF Count(content, <<TitleBar>>) # 0
       THEN /\ content' = ReplaceAll(content, <<TitleBar>>, <<>>)
            /\ out' = Append(out, Line("Removed titleBarStyle", ""))
       ELSE UNCHANGED <<content, out>>
    /\ pc' = "pf_write"
    /\ UNCHANGED <<script, file, patches, k, ctx, ret, wrote, run, hist,
                   input, start, result>>

\* lines 66-70: write the file, return True
PfWrite ==
    /\ script = "enable" /\ pc = "pf_write"
    /\ file' = content
    /\ wrote' = TRUE
    /\ LET o == Append(out, Line("SUCCESS: Patched", ""))
       IN  /\ out' = o
           /\ hist' = Append(hist, Finished("True", o, TRUE, content))
    /\ ret' = "True"
    /\ pc' = "done"
    /\ UNCHANGED <<script, content, patches, k, ctx, run, input, start, result>>

(***************************************************************************)
(* inject-cowork-bridge.py: tokens.                                        *)
(***************************************************************************)
Eipc == "$eipc_message$"
Under == "_"
IpcInvoke == ".ipcRenderer.invoke(\""
SettingsNs == "_$_claude.settings_$_"
KeysOpen == "Object.keys("
ForEachOpen == ").forEach("
Arrow == "=>"
ExposeCall == ".contextBridge.exposeInMainWorld("
Comma == ","
IndexOpen == "["
AnchorClose == "]))"
ProcessArg == "\"process\",K)"
PlatformFix == "K.platform=\"darwin\";K.arch=\"arm64\";"
Semi == ";"
ClaudeVMWord == "ClaudeVM"
VmOpen == "[\"claude.settings\"].ClaudeVM={"
VmSigArg == ":function(t){console.log(\"[BRIDGE] ClaudeVM."
VmSigNoArg == ":function(){console.log(\"[BRIDGE] ClaudeVM."
VmChannel == "ClaudeVM_$_"

\* the tokens whose text holds the substring ClaudeVM
ClaudeVMTokens == {ClaudeVMWord, VmOpen, VmSigArg, VmSigNoArg, VmChannel}

Idents == {"o", "p", "C", "D", "e"}
Uuids == {"0a1b2c3d-0000-4000-8000-000000000001",
          "0a1b2c3d-0000-4000-8000-000000000002"}

\* tokens matched by \w+ in the preload bundle
IsIdent(t) == t \in Idents

\* a check that never finds the bridge
HasClaudeVMNever(c) == FALSE

\* line 22: 'ClaudeVM' in content
HasClaudeVM(c) == {i \in 1..Len(c) : c[i] \in ClaudeVMTokens} # {}

\* lines 27-30: \$eipc_message\$_(<uuid>) matches at position i
UuidAt(c, i) ==
    /\ i >= 1 /\ i + 2 <= Len(c)
    /\ c[i] = Eipc /\ c[i + 1] = Under /\ c[i + 2] \in Uuids

\* line 27: re.search, the position of the leftmost match, 0 if none
SearchUuid(c) ==
    IF \E i \in 1..Len(c) : UuidAt(c, i)
    THEN CHOOSE i \in 1..Len(c) : UuidAt(c, i) /\ \A j \in 1..(i - 1) : ~UuidAt(c, j)
    ELSE 0

\* line 39: re.search of (\w+)\.ipcRenderer\.invoke\("\$eipc_message\$
IpcAt(c, i) ==
    /\ i >= 1 /\ i + 2 <= Len(c)
    /\ IsIdent(c[i]) /\ c[i + 1] = IpcInvoke /\ c[i + 2] = Eipc

\* line 39: re.search, the position of the leftmost match, 0 if none
SearchIpc(c) ==
    IF \E i \in 1..Len(c) : IpcAt(c, i)
    THEN CHOOSE i \in 1..Len(c) : IpcAt(c, i) /\ \A j \in 1..(i - 1) : ~IpcAt(c, j)
    ELSE 0

\* lines 48-50: Object\.keys\((\w+)\)\.forEach\((\w+)=>(\w+)\.contextBridge\.exposeInMainWorld\(\3,\2\[\3\]\)\)
ExposeLen == 13

ExposeAt(c, i) ==
    /\ i >= 1 /\ i + ExposeLen - 1 <= Len(c)
    /\ c[i] = KeysOpen
    /\ IsIdent(c[i + 1])
    /\ c[i + 2] = ForEachOpen
    /\ IsIdent(c[i + 3])
    /\ c[i + 4] = Arrow
    /\ IsIdent(c[i + 5])
    /\ c[i + 6] = ExposeCall
    /\ c[i + 7] = c[i + 3]
    /\ c[i + 8] = Comma
    /\ c[i + 9] = c[i + 1]
    /\ c[i + 10] = IndexOpen
    /\ c[i + 11] = c[i + 3]
    /\ c[i + 12] = AnchorClose

\* line 52: pattern.search, the position of the leftmost match, 0 if none
SearchExpose(c) ==
    IF \E i \in 1..Len(c) : ExposeAt(c, i)
    THEN CHOOSE i \in 1..Len(c) : ExposeAt(c, i) /\ \A j \in 1..(i - 1) : ~ExposeAt(c, j)
    ELSE 0

\* {inv}("{pfx}   (lines 61-62)
Call(iv, uu) == <<iv, IpcInvoke, Eipc, Under, uu, SettingsNs>>

\* one ClaudeVM method with logging (lines 71-77)
VmMethod(iv, uu, name, hasArg) ==
    <<name, IF hasArg THEN VmSigArg ELSE VmSigNoArg, name,
      IF hasArg THEN " called\",t);return " ELSE " called\");return ">>
    \o Call(iv, uu)
    \o <<VmChannel, name, IF hasArg THEN "\",t)}" ELSE "\")}">>

\* one AppFeatures method (lines 82-84)
FeatureMethod(ov, iv, uu, name) ==
    <<ov, "[\"claude.settings\"].AppFeatures.", name, "=function(){return ">>
    \o Call(iv, uu)
    \o <<"AppFeatures_$_", name, "\")}">>

\* one LocalAgentModeSessions method (lines 89-91)
SessionMethod(iv, uu, name, hasArg) ==
    <<name, IF hasArg THEN ":function(t){return " ELSE ":function(){return ">>
    \o Call(iv, uu)
    \o <<"LocalAgentModeSessions_$_", name, IF hasArg THEN "\",t)}" ELSE "\")}">>

\* lines 65-95: ';'.join(inject_parts)
InjectCode(ov, iv, uu) ==
    <<ov, "[\"claude.settings\"]=", ov, "[\"claude.settings\"]||{}", Semi>>
    \o <<ov, VmOpen>>
    \o VmMethod(iv, uu, "setYukonSilverConfig", TRUE) \o <<Comma>>
    \o VmMethod(iv, uu, "getSupportStatus", FALSE) \o <<Comma>>
    \o VmMethod(iv, uu, "getDownloadStatus", FALSE) \o <<Comma>>
    \o VmMethod(iv, uu, "getRunningStatus", FALSE) \o <<Comma>>
    \o VmMethod(iv, uu, "download", FALSE) \o <<Comma>>
    \o VmMethod(iv, uu, "start", FALSE) \o <<Comma>>
    \o VmMethod(iv, uu, "stop", FALSE)
    \o <<"}", Semi>>
    \o <<"if(", ov, "[\"claude.settings\"].AppFeatures){">>
    \o FeatureMethod(ov, iv, uu, "getCoworkFeatureState") \o <<Semi>>
    \o FeatureMethod(ov, iv, uu, "getYukonSilverStatus") \o <<Semi>>
    \o FeatureMethod(ov, iv, uu, "getFeatureFlags")
    \o <<"}", Semi>>
    \o <<ov, "[\"claude.settings\"].LocalAgentModeSessions={">>
    \o SessionMethod(iv, uu, "getAll", FALSE) \o <<Comma>>
    \o SessionMethod(iv, uu, "create", TRUE) \o <<Comma>>
    \o SessionMethod(iv, uu, "get", TRUE)
    \o <<"}">>

\* line 105 and line 106
ProcessExpose(iv) == <<iv, ExposeCall, ProcessArg>>
ProcessFix(iv) == <<PlatformFix>> \o ProcessExpose(iv)

(***************************************************************************)
(* patch_mainview(filepath), one action per block of statements.           *)
(***************************************************************************)
\* lines 18-24: read the file; the bridge is already there, return True
MvAlreadyPatched ==
    /\ script = "inject" /\ pc = "mv_read"
    /\ HasClaudeVM(file)
    /\ content' = file
    /\ LET o == Append(out, Line("already patched", "mainView.js"))
       IN  /\ out' = o
           /\ hist' = Append(hist, Finished("True", o, wrote, file))
    /\ ret' = "True"
    /\ pc' = "done"
    /\ UNCHANGED <<script, file, patches, k, ctx, wrote, run, input, start,
                   result>>

\* lines 18-22: read the file; not patched yet
MvRead ==
    /\ script = "inject" /\ pc = "mv_read"
    /\ ~HasClaudeVM(file)
    /\ content' = file
    /\ pc' = "mv_uuid"
    /\ UNCHANGED <<script, file, patches, k, ctx, out, ret, wrote, run, hist,
                   input, start, result>>

\* lines 31-33
MvUuidMissing ==
    /\ script = "inject" /\ pc = "mv_uuid"
    /\ SearchUuid(content) = 0
    /\ Fail("ERROR: Could not extract EIPC UUID")

\* lines 35-36
MvUuid ==
    /\ script = "inject" /\ pc = "mv_uuid"
    /\ SearchUuid(content) # 0
    /\ LET uuid == content[SearchUuid(content) + 2]
       IN  /\ ctx' = [ctx EXCEPT !.uuid = uuid]
           /\ out' = Append(out, Line("EIPC UUID", uuid))
    /\ pc' = "mv_ipc"
    /\ UNCHANGED <<script, file, content, patches, k, ret, wrote, run, hist,
                   input, start, result>>

\* lines 40-42
MvIpcMissing ==
    /\ script = "inject" /\ pc = "mv_ipc"
    /\ SearchIpc(content) = 0
    /\ Fail("ERROR: Could not find ipcRenderer variable")

\* line 43
MvIpc ==
    /\ script = "inject" /\ pc = "mv_ipc"
    /\ SearchIpc(content) # 0
    /\ ctx' = [ctx EXCEPT !.ipc_var = content[SearchIpc(content)]]
    /\ pc' = "mv_anchor"
    /\ UNCHANGED <<script, file, content, patches, k, out, ret, wrote, run,
                   hist, input, start, result>>

\* lines 53-55
MvAnchorMissing ==
    /\ script = "inject" /\ pc = "mv_anchor"
    /\ SearchExpose(content) = 0
    /\ Fail("ERROR: Could not find contextBridge.exposeInMainWorld pattern")

\* lines 57-58
MvAnchor ==
    /\ script = "inject" /\ pc = "mv_anchor"
    /\ SearchExpose(content) # 0
    /\ LET m == SearchExpose(content)
       IN  ctx' = [ctx EXCEPT !.obj_var = content[m + 1],
                              !.original = SubSeq(content, m, m + ExposeLen - 1)]
    /\ pc' = "mv_inject"
    /\ UNCHANGED <<script, file, content, patches, k, out, ret, wrote, run,
                   hist, input, start, result>>

\* lines 61-99: build the injection and splice it in
MvInject ==
    /\ script = "inject" /\ pc = "mv_inject"
    /\ LET inject == InjectCode(ctx.obj_var, ctx.ipc_var, ctx.uuid)
           replacement == inject \o <<Semi>> \o ctx.original
       IN  content' = ReplaceFirst(content, ctx.original, replacement)
    /\ pc' = "mv_fix"
    /\ UNCHANGED <<script, file, patches, k, ctx, out, ret, wrote, run, hist,
                   input, start, result>>

\* lines 105-109: Patch 2
MvProcessFix ==
    /\ script = "inject" /\ pc = "mv_fix"
    /\ LET process_expose == ProcessExpose(ctx.ipc_var)
           process_fix == ProcessFix(ctx.ipc_var)
       IN  IF Contains(content, process_expose) /\ ~Contains(content, process_fix)
           THEN /\ content' = ReplaceFirst(content, process_expose, process_fix)
                /\ out' = Append(out, Line("Patched window.process.platform/arch", ""))
           ELSE UNCHANGED <<content, out>>
    /\ pc' = "mv_write"
    /\ UNCHANGED <<script, file, patches, k, ctx, ret, wrote, run, hist,
                   input, start, result>>

\* lines 111-117: write the file, return True
MvWrite ==
    /\ script = "inject" /\ pc = "mv_write"
    /\ file' = content
    /\ wrote' = TRUE
    /\ LET o == Append(out, Line("SUCCESS: Injected", ""))
       IN  /\ out' = o
           /\ hist' = Append(hist, Finished("True", o, TRUE, content))
    /\ ret' = "True"
    /\ pc' = "done"
    /\ UNCHANGED <<script, content, patches, k, ctx, run, input, start, result>>

(***************************************************************************)
(* __main__: the script is invoked again on the same path.                 *)
(***************************************************************************)
FirstPc == IF script = "enable" THEN "pf_read" ELSE "mv_read"

RunAgain ==
    /\ script \in {"enable", "inject"} /\ pc = "done"
    /\ run < MaxRuns
    /\ run' = run + 1
    /\ pc' = FirstPc
    /\ input' = file
    /\ content' = <<>>
    /\ patches' = <<>>
    /\ k' = 0
    /\ ctx' = NoCtx
    /\ out' = <<>>
    /\ ret' = "none"
    /\ wrote' = FALSE
    /\ UNCHANGED <<script, file, hist, start, result>>

(***************************************************************************)
(* Input files of enable-cowork.py: concatenations of these pieces.        *)
(***************************************************************************)
\* function NAME(){return process.platform!=="darwin"?{status:"un..."}:{status:"supported"}}
Gated(name, status) ==
    <<KwFunction, name, Parens, Open, KwReturn, Gate, Open, status, Close,
      Colon, Open, Supported, Close, Close>>

\* a gated function f whose else-branch holds the gated function g
NestedGated ==
    <<KwFunction, "f", Parens, Open, KwReturn, Gate, Open, Unsupported, Close,
      Colon, Open>> \o Gated("g", Unavailable) \o <<Close, Close>>

\* a gated function cut off before its closing brace
Truncated(name) ==
    <<KwFunction, name, Parens, Open, KwReturn, Gate, Open, Unsupported, Close>>

EnablePieces ==
    { Gated("f", Unsupported), Gated("g", Unavailable), NestedGated,
      Truncated("g"), Replacement("f"), <<TitleBar>>, <<Filler>>,
      <<Close>>, <<Open>> }

Buffers(pieces) ==
    { Concat(ps) : ps \in UNION { [1..n -> pieces] : n \in 0..MaxPieces } }

InitEnable ==
    /\ script = "enable"
    /\ file \in Buffers(EnablePieces)
    /\ input = file
    /\ content = <<>>
    /\ pc = "pf_read"
    /\ patches = <<>>
    /\ k = 0
    /\ ctx = NoCtx
    /\ out = <<>>
    /\ ret = "none"
    /\ wrote = FALSE
    /\ run = 1
    /\ hist = <<>>
    /\ start = 0
    /\ result = NoneValue

NextEnable ==
    \/ PfRead
    \/ PfNoPatches
    \/ PfEnterLoop
    \/ PfAlreadyPatched
    \/ PfPatch
    \/ PfStrip
    \/ PfWrite

(***************************************************************************)
(* Input files of inject-cowork-bridge.py: concatenations of these pieces. *)
(***************************************************************************)
\* o.ipcRenderer.invoke("$eipc_message$_<uuid>...
IpcCall(iv, uu) == <<iv, IpcInvoke, Eipc, Under, uu, Filler>>
\* a channel name outside any invoke call
EipcOnly(uu) == <<Eipc, Under, uu>>
\* an invoke call whose channel carries no UUID
IpcNoUuid(iv) == <<iv, IpcInvoke, Eipc, Filler>>
\* Object.keys(X).forEach(Y=>Z.contextBridge.exposeInMainWorld(Y,X[Y]))
ExposeLoop(ov, y, z) ==
    <<KeysOpen, ov, ForEachOpen, y, Arrow, z, ExposeCall, y, Comma, ov,
      IndexOpen, y, AnchorClose>>
\* the same shape with a different object indexed: not the anchor
OtherLoop ==
    <<KeysOpen, "C", ForEachOpen, "e", Arrow, "o", ExposeCall, "e", Comma, "D",
      IndexOpen, "e", AnchorClose>>

InjectPieces ==
    { IpcCall("o", "0a1b2c3d-0000-4000-8000-000000000001"),
      EipcOnly("0a1b2c3d-0000-4000-8000-000000000002"),
      IpcNoUuid("p"),
      ExposeLoop("C", "e", "o"), ExposeLoop("D", "e", "p"), OtherLoop,
      ProcessExpose("o"), ProcessFix("o"), <<ClaudeVMWord>>,
      InjectCode("C", "o", "0a1b2c3d-0000-4000-8000-000000000001") }

InitInject ==
    /\ script = "inject"
    /\ file \in Buffers(InjectPieces)
    /\ input = file
    /\ content = <<>>
    /\ pc = "mv_read"
    /\ patches = <<>>
    /\ k = 0
    /\ ctx = NoCtx
    /\ out = <<>>
    /\ ret = "none"
    /\ wrote = FALSE
    /\ run = 1
    /\ hist = <<>>
    /\ start = 0
    /\ result = NoneValue

NextInject ==
    \/ MvAlreadyPatched
    \/ MvRead
    \/ MvUuidMissing
    \/ MvUuid
    \/ MvIpcMissing
    \/ MvIpc
    \/ MvAnchorMissing
    \/ MvAnchor
    \/ MvInject
    \/ MvProcessFix
    \/ MvWrite

Init == InitEnable \/ InitInject

Next == NextEnable \/ NextInject \/ RunAgain

Spec == Init /\ [][Next]_vars

(***************************************************************************)
(* find_balanced_function called on its own, on every short text of        *)
(* braces and filler and every start offset.                               *)
(***************************************************************************)
BraceTexts == UNION { [1..n -> {Open, Close, Filler}] : n \in 0..MaxLen }

InitExtract ==
    /\ script = "extract"
    /\ content \in BraceTexts
    /\ start \in 1..(Len(content) + 1)
    /\ pc = "fb_call"
    /\ result = NoneValue
    /\ file = <<>>
    /\ input = <<>>
    /\ patches = <<>>
    /\ k = 0
    /\ ctx = NoCtx
    /\ out = <<>>
    /\ ret = "none"
    /\ wrote = FALSE
    /\ run = 1
    /\ hist = <<>>

\* lines 16-26
Extract ==
    /\ script = "extract" /\ pc = "fb_call"
    /\ result' = find_balanced_function(content, start)
    /\ pc' = "done"
    /\ UNCHANGED <<script, file, content, patches, k, ctx, out, ret, wrote,
                   run, hist, input, start>>

NextExtract == Extract

SpecExtract == InitExtract /\ [][NextExtract]_vars

(***************************************************************************)
(* Vocabulary of the properties.                                           *)
(***************************************************************************)
Opens(c, a, b) == Cardinality({i \in a..b : c[i] = Open})
Closes(c, a, b) == Cardinality({i \in a..b : c[i] = Close})
\* nesting depth after reading c[a..b]
Depth(c, a, b) == Opens(c, a, b) - Closes(c, a, b)
Least(S) == CHOOSE x \in S : \A y \in S : x <= y

\* e closes the block opened by the first brace at or after s, and that
\* block is correctly nested
ClosesBlockFrom(c, s, e) ==
    /\ s <= e /\ e <= Len(c)
    /\ c[e] = Close
    /\ Depth(c, s, e) = 0
    /\ \E o \in s..e :
          /\ c[o] = Open
          /\ \A j \in s..(o - 1) : c[j] \notin {Open, Close}
          /\ \A j \in o..(e - 1) : Depth(c, o, j) > 0

\* the depth, counted from s, comes back to zero on a closing brace at e
ReturnsToZeroAt(c, s, e) ==
    /\ s <= e /\ e <= Len(c)
    /\ c[e] = Close
    /\ Depth(c, s, e) = 0

AnchorStarts(c) == {i \in 1..Len(c) : AnchorAt(c, i)}
BalancedAt(c, i) == AnchorAt(c, i) /\ \E e \in i..Len(c) : ReturnsToZeroAt(c, i, e)
BalancedStarts(c) == {i \in 1..Len(c) : BalancedAt(c, i)}
BlockEnd(c, i) == Least({e \in i..Len(c) : ReturnsToZeroAt(c, i, e)})

SupportedFunction(name) ==
    <<"function ", name, "()", "{", "return", "{", "status:\"supported\"", "}", "}">>

\* the input with every gated function replaced as a whole
RECURSIVE Rewritten(_, _)
Rewritten(c, i) ==
    IF i > Len(c) THEN <<>>
    ELSE IF BalancedAt(c, i)
         THEN SupportedFunction(c[i + 1]) \o Rewritten(c, BlockEnd(c, i) + 1)
         ELSE <<c[i]>> \o Rewritten(c, i + 1)

WithoutTitleBar(c) == SelectSeq(c, LAMBDA t : t # "titleBarStyle:\"hidden\",")

\* the names a run reported with one of the given outcomes, in order
RECURSIVE Reported(_, _)
Reported(o, kinds) ==
    IF o = <<>> THEN <<>>
    ELSE IF Head(o).kind \in kinds THEN <<Head(o).name>> \o Reported(Tail(o), kinds)
    ELSE Reported(Tail(o), kinds)

\* the names of the functions starting at the given positions, by position
RECURSIVE NamesAt(_, _)
NamesAt(c, S) ==
    IF S = {} THEN <<>>
    ELSE LET i == Least(S) IN <<c[i + 1]>> \o NamesAt(c, S \ {i})

LastLine(o) == o[Len(o)]
\* a run of the script has just returned; LastRun is its record
Returned(sc) == script = sc /\ pc = "done"
LastRun == hist[Len(hist)]

(***************************************************************************)
(* Properties of find_balanced_function (checked under SpecExtract).       *)
(***************************************************************************)
\* C3: when the first brace at or after start opens a correctly nested
\* block, find_balanced_function returns content[start..e] where e is the
\* closing brace of that outermost block (the first offset at which the
\* depth is back to zero), whatever follows e.
C3_BalancedExtraction ==
    (script = "extract" /\ pc = "done") =>
        \A e \in 1..Len(content) :
            ClosesBlockFrom(content, start, e) =>
                result = [found |-> TRUE, text |-> SubSeq(content, start, e)]

\* C3 witness: a block with an inner pair, preceded by filler and followed
\* by more text, has been extracted.
C3_Witness ==
    /\ script = "extract" /\ pc = "done"
    /\ \E e \in 1..Len(content) :
          /\ ClosesBlockFrom(content, start, e)
          /\ Opens(content, start, e) >= 2
          /\ e < Len(content)
          /\ content[start] = Filler
    /\ result.found

\* C4: if the depth never comes back to zero on a closing brace before the
\* end of the input, the result is None; a returned fragment starts at
\* start, ends inside the buffer and holds as many opening as closing braces.
C4_UnbalancedDetection ==
    (script = "extract" /\ pc = "done") =>
        /\ (~\E e \in start..Len(content) : ReturnsToZeroAt(content, start, e))
              => result = [found |-> FALSE, text |-> <<>>]
        /\ result.found =>
              /\ \E e \in start..Len(content) : result.text = SubSeq(content, start, e)
              /\ Opens(result.text, 1, Len(result.text))
                    = Closes(result.text, 1, Len(result.text))

\* C4 witness: an opening brace with no matching closer was scanned to the
\* end of the input and None came back.
C4_Witness ==
    /\ script = "extract" /\ pc = "done"
    /\ start <= Len(content) /\ content[start] = Open
    /\ Closes(content, start, Len(content)) >= 1
    /\ Depth(content, start, Len(content)) > 0
    /\ ~result.found

(***************************************************************************)
(* Properties of patch_file (checked under Spec).                          *)
(***************************************************************************)
StatusKinds == {"patched", "already patched", "not found"}

\* C1: whenever a first run of patch_file succeeds, the second run on the
\* written file also returns True, reports no patch as newly patched and
\* every patch as already patched, and leaves the file as run 1 wrote it.
C1_SecondRunIdempotent ==
    (script = "enable" /\ Len(hist) >= 2 /\ hist[1].ret = "True") =>
        /\ hist[2].ret = "True"
        /\ Reported(hist[2].out, {"patched"}) = <<>>
        /\ Reported(hist[2].out, {"already patched"})
              = Reported(hist[1].out, StatusKinds)
        /\ hist[2].output = hist[1].output

\* the hypotheses of C2 on an input buffer
C2_Hypotheses(c) ==
    /\ AnchorStarts(c) # {}
    /\ \A i \in AnchorStarts(c) : \E e \in i..Len(c) : ClosesBlockFrom(c, i, e)
    /\ \A i, j \in AnchorStarts(c) : i # j => c[i + 1] # c[j + 1]
    /\ \A i, j \in AnchorStarts(c) : i < j => BlockEnd(c, i) < j
    /\ \A n \in Names : ~Contains(c, SupportedFunction(n))

\* C2: on a buffer whose gated functions are balanced, distinctly named and
\* not nested, and that holds no replacement text, patch_file returns True,
\* reports every gated function as patched, and writes the input with each
\* whole gated function replaced by function NAME(){return{status:"supported"}}
\* and the titleBarStyle:"hidden", tokens removed; nothing else changes.
C2_WholeFunctionReplacement ==
    (Returned("enable") /\ C2_Hypotheses(LastRun.input)) =>
        /\ LastRun.ret = "True"
        /\ LastRun.output = WithoutTitleBar(Rewritten(LastRun.input, 1))
        /\ Reported(LastRun.out, StatusKinds)
              = NamesAt(LastRun.input, AnchorStarts(LastRun.input))
        /\ Reported(LastRun.out, {"patched"}) = Reported(LastRun.out, StatusKinds)

\* C2 witness: a run has rewritten a buffer with two gated functions and a
\* titleBarStyle token.
C2_Witness ==
    /\ Returned("enable")
    /\ C2_Hypotheses(LastRun.input)
    /\ Cardinality(AnchorStarts(LastRun.input)) = 2
    /\ Contains(LastRun.input, <<TitleBar>>)
    /\ LastRun.ret = "True"
    /\ LastRun.output # LastRun.input

\* C6: a step of the apply loop on a patch whose replacement and whose
\* original fragment are both absent from the current buffer leaves the
\* buffer unchanged and reports the patch as not found.
C6_NotFoundIsReported ==
    [][ ( /\ script = "enable" /\ pc = "pf_apply" /\ k <= Len(patches)
          /\ ~Contains(content, patches[k].new)
          /\ ~Contains(content, patches[k].old)
          /\ k' = k + 1 )
        => ( /\ content' = content
             /\ LastLine(out') = [kind |-> "not found", name |-> patches[k].name] )
      ]_vars

FirstUuid(c) == Least({i \in 1..Len(c) : UuidAt(c, i)})
FirstIpc(c) == Least({i \in 1..Len(c) : IpcAt(c, i)})
FirstExpose(c) == Least({i \in 1..Len(c) : ExposeAt(c, i)})
NoUuid(c) == ~\E i \in 1..Len(c) : UuidAt(c, i)
NoIpc(c) == ~\E i \in 1..Len(c) : IpcAt(c, i)
NoExpose(c) == ~\E i \in 1..Len(c) : ExposeAt(c, i)
MentionsClaudeVM(c) == \E i \in 1..Len(c) : c[i] \in ClaudeVMTokens

\* the ERROR line a run on input c must end with, "" if it must not fail
ExpectedError(sc, c) ==
    IF sc = "enable"
    THEN IF BalancedStarts(c) = {}
         THEN "ERROR: No platform-gated functions found" ELSE ""
    ELSE IF MentionsClaudeVM(c) THEN ""
    ELSE IF NoUuid(c) THEN "ERROR: Could not extract EIPC UUID"
    ELSE IF NoIpc(c) THEN "ERROR: Could not find ipcRenderer variable"
    ELSE IF NoExpose(c)
         THEN "ERROR: Could not find contextBridge.exposeInMainWorld pattern"
    ELSE ""

\* C5: a run of patch_file or patch_mainview fails exactly when its
\* structural element is missing; it then returns False, its last printed
\* line is the ERROR naming the missing element, and it never opens the
\* file for writing, so the file is as it was before the run.
C5_NoWriteOnFailure ==
    /\ pc = "done" =>
          LET h == LastRun IN
          /\ h.ret = ret /\ h.output = file /\ h.wrote = wrote
          /\ (h.ret = "False") = (ExpectedError(h.script, h.input) # "")
          /\ h.ret = "False" =>
                /\ LastLine(h.out) = [kind |-> ExpectedError(h.script, h.input),
                                      name |-> ""]
                /\ ~h.wrote
                /\ h.output = h.input
    /\ ret = "False" => (file = input /\ ~wrote)

\* C5 witness: a run of patch_mainview that had recovered the UUID and the
\* ipcRenderer variable failed on the missing splice anchor.
C5_Witness ==
    /\ Returned("inject")
    /\ LastRun.ret = "False"
    /\ ~NoUuid(LastRun.input) /\ ~NoIpc(LastRun.input)
    /\ Len(LastRun.input) > 6

(***************************************************************************)
(* Properties of patch_mainview (checked under Spec).                      *)
(***************************************************************************)
\* the number of places where the injected bridge code stands in c
BridgeCopies(c) ==
    Cardinality({ i \in 1..(Len(c) - 1) :
                    /\ c[i + 1] = "[\"claude.settings\"]="
                    /\ \E iv \in Idents, uu \in Uuids :
                          MatchAt(c, InjectCode(c[i], iv, uu), i) })

Succeeded == {n \in 1..Len(hist) : hist[n].ret = "True"}
FirstSuccess == Least(Succeeded)

\* a run that follows a successful one returns True, reports already
\* patched, writes nothing and leaves the file as it was
LaterRunIsNoOp ==
    (Returned("inject") /\ \E m \in Succeeded : m < Len(hist)) =>
        /\ LastRun.ret = "True"
        /\ LastRun.out = <<[kind |-> "already patched", name |-> "mainView.js"]>>
        /\ ~LastRun.wrote
        /\ LastRun.output = LastRun.input
        /\ LastRun.output = hist[FirstSuccess].output

\* C7 as stated: after a first successful run every later run is a no-op
\* reporting already patched, and after any sequence of runs that holds a
\* successful one the injected bridge code occurs exactly once in the file.
C7_ExactlyOnceAfterSuccess ==
    /\ LaterRunIsNoOp
    /\ (Returned("inject") /\ Succeeded # {}) => BridgeCopies(file) = 1

\* C7 amended: after a first successful run every later run is a no-op
\* reporting already patched; the injected bridge code occurs exactly once
\* in the file if that first successful run performed the injection, and
\* as often as in the file it was given (possibly not at all) if it
\* succeeded because the buffer already held ClaudeVM.
C7_OnceIfInjected ==
    /\ LaterRunIsNoOp
    /\ (Returned("inject") /\ Succeeded # {}) =>
          BridgeCopies(file) = IF hist[FirstSuccess].wrote THEN 1
                               ELSE BridgeCopies(hist[FirstSuccess].input)

\* C7 witness: the first run injected the bridge and two more runs followed.
C7_Witness ==
    /\ script = "inject" /\ Len(hist) = 3
    /\ hist[1].ret = "True" /\ hist[1].wrote
    /\ hist[1].output # hist[1].input
    /\ hist[3].ret = "True"

\* C8: in every run on a buffer from which the ipcRenderer variable can be
\* read, the platform/arch override is applied if and only if the expose
\* literal is in the buffer and the already-patched form is not, whether
\* the bridge injection was performed, skipped or failed.
C8_OverrideIndependent ==
    (Returned("inject") /\ ~NoIpc(LastRun.input)) =>
        LET c == LastRun.input
            iv == c[FirstIpc(c)]
            expose == <<iv, ".contextBridge.exposeInMainWorld(", "\"process\",K)">>
            fixed == <<"K.platform=\"darwin\";K.arch=\"arm64\";">> \o expose
        IN  (Reported(LastRun.out, {"Patched window.process.platform/arch"}) # <<>>)
                = (Contains(c, expose) /\ ~Contains(c, fixed))

\* C9: right after the splice the buffer is the input text before the first
\* match of the Object.keys(X).forEach(...) shape, the synthesized code, a
\* semicolon, and the input text from that match on; the code stands there
\* once, and its identifiers and UUIDs are the recovered X, ipcRenderer
\* variable and UUID.
C9_SpliceBeforeFirstAnchor ==
    (script = "inject" /\ pc = "mv_fix") =>
        LET p == FirstExpose(input)
            X == input[p + 1]
            iv == input[FirstIpc(input)]
            uu == input[FirstUuid(input) + 2]
            code == InjectCode(X, iv, uu)
        IN  /\ content = SubSeq(input, 1, p - 1) \o code \o <<";">>
                           \o SubSeq(input, p, Len(input))
            /\ BridgeCopies(content) = 1
            /\ \A i \in 1..Len(code) :
                  /\ code[i] \in Idents => code[i] \in {X, iv}
                  /\ code[i] \in Uuids => code[i] = uu
            /\ Cardinality({i \in 1..Len(code) : code[i] = uu}) = 13
            /\ Cardinality({i \in 1..Len(code) : code[i] \in Idents}) = 21
            /\ ctx.obj_var = X /\ ctx.ipc_var = iv /\ ctx.uuid = uu

\* C9 witness: the splice was made in a buffer that holds the anchor text
\* twice, with an ipcRenderer variable that differs from the anchor's.
C9_Witness ==
    /\ script = "inject" /\ pc = "mv_fix"
    /\ Count(input, ctx.original) = 2
    /\ ctx.ipc_var # input[FirstExpose(input) + 5]
    /\ ctx.obj_var # ctx.ipc_var

====
